---------------------------- MODULE Spec2Model ----------------------------
(***************************************************************************)
(* Model of week_4/visualizing_stationary_functional_v1.ipynb: the         *)
(* functional S[y] = int (y'^2 + y y' + y^2) dx of Taylor problem 6.9, the *)
(* candidate paths y = base + alpha * eta, and the ipywidgets session that *)
(* draws them on two matplotlib axes.                                      *)
(*                                                                         *)
(* Numbers are exact rationals [num, den] in lowest terms.  The arithmetic *)
(* of the notebook (sums, products, quotients, powers) is exact; float64   *)
(* rounding of these operations is not modelled.  The values the functions *)
(* of the notebook take on the grid (np.sinh, np.sin, cube, parabola) are  *)
(* machine numbers: they are rounded to the nearest multiple of            *)
(* 1/Resolution, with np.sinh and np.sin computed by a truncated series    *)
(* and a rational approximation.                                           *)
(***************************************************************************)
EXTENDS Integers, Sequences, FiniteSets

VARIABLES
    pc,             \* position of the notebook cell / of the harness
    alpha,          \* value of the FloatSlider in the kernel, in slider steps
    handle,         \* position of the slider handle in the front end, in steps
    base_function,  \* value of the 'base function' Dropdown
    eta_function,   \* value of the eta Dropdown
    ax1,            \* lines drawn on ax1 ('Show paths'), in drawing order
    ax2,            \* artists drawn on ax2 ('Evaluate functional'), in order
    evals,          \* history: make_path calls that drew since the last clear
    last,           \* history: the most recent operation and its arguments
    probe           \* arguments and result of a direct evaluate_functional call

vars == <<pc, alpha, handle, base_function, eta_function, ax1, ax2, evals,
          last, probe>>

---------------------------------------------------------------------------
(* Bounds of the model *)

\* number of grid points: delta_x = 1/GridN (the notebook has delta_x = 0.001)
GridN == 4
\* function values are rounded to multiples of 1/Resolution
Resolution == 50
\* make_path calls the session draws between two clears
MaxEvals == 2
\* pointer positions tried around each end and the middle of the slider track
PointerReach == 2
\* direct evaluate_functional calls: grid coordinates 0..MaxCoord, at most
\* MaxPts points, path values -MaxVal..MaxVal
MaxCoord == 3
MaxPts == 3
MaxVal == 2

(* Constants of the program *)

\* FloatSlider(min=-1., max=1., step=.05): the value is SliderIndex * 0.05
StepsPerUnit == 20
SliderMin == -20
SliderMax == 20
SliderInit == 0

---------------------------------------------------------------------------
(* Exact rational arithmetic *)

Abs(n) == IF n < 0 THEN -n ELSE n

RECURSIVE GCD(_, _)
GCD(a, b) == IF b = 0 THEN a ELSE GCD(b, a % b)

\* n/d in lowest terms, d > 0
Rat(n, d) == LET g == GCD(Abs(n), d) IN [num |-> n \div g, den |-> d \div g]

RInt(n) == [num |-> n, den |-> 1]
Zero == RInt(0)
One == RInt(1)

RAdd(a, b) ==
    LET g == GCD(a.den, b.den)
    IN  Rat(a.num * (b.den \div g) + b.num * (a.den \div g), (a.den \div g) * b.den)

RNeg(a) == [num |-> -a.num, den |-> a.den]

RSub(a, b) == RAdd(a, RNeg(b))

RMul(a, b) ==
    LET g1 == GCD(Abs(a.num), b.den)
        g2 == GCD(Abs(b.num), a.den)
    IN  [num |-> (a.num \div g1) * (b.num \div g2),
         den |-> (a.den \div g2) * (b.den \div g1)]

\* a / b for b # 0
RDiv(a, b) ==
    IF b.num > 0 THEN RMul(a, [num |-> b.den, den |-> b.num])
    ELSE RMul(a, [num |-> -b.den, den |-> -b.num])

RLe(a, b) ==
    LET g == GCD(a.den, b.den)
    IN  a.num * (b.den \div g) <= b.num * (a.den \div g)

RLt(a, b) == RLe(a, b) /\ a # b

\* the machine number nearest to r (ties upward)
Quantize(r) == Rat((2 * r.num * Resolution + r.den) \div (2 * r.den), Resolution)

---------------------------------------------------------------------------
(* Numeric core *)

\* np.sinh: x + x^3/3! + x^5/5!
sinh(x) ==
    LET x2 == RMul(x, x)
        x3 == RMul(x2, x)
        x5 == RMul(x3, x2)
    IN  RAdd(x, RAdd(RDiv(x3, RInt(6)), RDiv(x5, RInt(120))))

\* np.sin(np.pi * x) for 0 <= x <= 1: 16x(1-x) / (5 - 4x(1-x))
sin_pi(x) ==
    LET p == RMul(x, RSub(One, x))
    IN  RDiv(RMul(RInt(16), p), RSub(RInt(5), RMul(RInt(4), p)))

y_star_guess(x) == Quantize(RDiv(sinh(RMul(RInt(2), x)), sinh(RInt(2))))

\* def y_star(x): return np.sinh(x) / np.sinh(1.)
y_star(x) == Quantize(RDiv(sinh(x), sinh(One)))

\* delta_x = 0.001 in the notebook; 1/GridN here
delta_x == Rat(1, GridN)

\* x_pts = np.arange(0., 1., delta_x): 0, delta_x, ..., 1 - delta_x
x_pts == [i \in 1..GridN |-> RMul(RInt(i - 1), delta_x)]

\* np.gradient(y, x), edge_order 1, for Len(x) >= 2: one-sided differences at
\* the two ends, and inside the second-order difference for spacings
\* hs = x[i] - x[i-1], hd = x[i+1] - x[i] (the central difference when hs = hd)
gradient(y, x) ==
    LET n == Len(x)
    IN  [i \in 1..n |->
            IF i = 1 THEN RDiv(RSub(y[2], y[1]), RSub(x[2], x[1]))
            ELSE IF i = n THEN RDiv(RSub(y[n], y[n - 1]), RSub(x[n], x[n - 1]))
            ELSE LET hs == RSub(x[i], x[i - 1])
                     hd == RSub(x[i + 1], x[i])
                     hs2 == RMul(hs, hs)
                     hd2 == RMul(hd, hd)
                 IN  RDiv(RAdd(RMul(hs2, y[i + 1]),
                               RSub(RMul(RSub(hd2, hs2), y[i]), RMul(hd2, y[i - 1]))),
                          RMul(RMul(hs, hd), RAdd(hd, hs)))]

RECURSIVE trapz_upto(_, _, _)
trapz_upto(f, x, k) ==
    IF k <= 1 THEN Zero
    ELSE RAdd(trapz_upto(f, x, k - 1),
              RMul(RSub(x[k], x[k - 1]), RDiv(RAdd(f[k], f[k - 1]), RInt(2))))

\* np.trapz(f, x)
trapz(f, x) == trapz_upto(f, x, Len(x))

integrand_linear(y, d) == RAdd(RMul(d, d), RAdd(RMul(y, d), y))

\* f = y_deriv_pts**2 + y_pts * y_deriv_pts + y_pts**2, at one point
integrand(y, d) == RAdd(RMul(d, d), RAdd(RMul(y, d), RMul(y, y)))

\* def evaluate_functional(x_pts, y_pts), for Len(x) >= 2
evaluate_functional(x, y) ==
    LET y_deriv_pts == gradient(y, x)
        f == [i \in 1..Len(x) |-> integrand(y[i], y_deriv_pts[i])]
    IN  trapz(f, x)

---------------------------------------------------------------------------
(* Path generator *)

\* options of the two Dropdown widgets
BaseOptions == {"exact", "guess 1", "guess 2"}
EtaOptions == {"sine", "parabola"}

\* the if/elif chain binds the local name base for these tags only
base_resolves(b) == b \in {"exact", "guess 1", "guess 2"}

\* the if/elif chain binds the local name eta for these tags only
eta_resolves(e) == e \in {"sine", "parabola"}

base_swapped(b, x) ==
    CASE b = "exact" -> Quantize(RDiv(sinh(RMul(RInt(2), x)), sinh(RInt(2))))
      [] b = "guess 1" -> y_star(x)
      [] b = "guess 2" -> Quantize(RMul(x, RMul(x, x)))

\* base = lambda x : ..., for a tag that resolves
base(b, x) ==
    CASE b = "exact" -> y_star(x)
      [] b = "guess 1" -> Quantize(RDiv(sinh(RMul(RInt(2), x)), sinh(RInt(2))))
      [] b = "guess 2" -> Quantize(RMul(x, RMul(x, x)))

\* eta = lambda x : ..., for a tag that resolves
eta(e, x) ==
    CASE e = "sine" -> Quantize(sin_pi(x))
      [] e = "parabola" -> Quantize(RMul(RMul(RInt(4), x), RSub(One, x)))

x_unmapped_pts == x_pts

\* x_mapped_pts = (x_pts - x_pts[0]) / (x_pts[-1] - x_pts[0])
x_mapped_pts ==
    [i \in 1..GridN |->
        RDiv(RSub(x_pts[i], x_pts[1]), RSub(x_pts[GridN], x_pts[1]))]

\* the slider value of index a: a * 0.05
AlphaOf(a) == Rat(a, StepsPerUnit)

y_new_pts_shifted(a, b, e) ==
    [i \in 1..GridN |->
        RAdd(base(b, x_pts[i]), RAdd(AlphaOf(a), eta(e, x_mapped_pts[i])))]

\* y_new_pts = base(x_pts) + alpha * eta(x_mapped_pts)
y_new_pts(a, b, e) ==
    [i \in 1..GridN |->
        RAdd(base(b, x_pts[i]), RMul(AlphaOf(a), eta(e, x_mapped_pts[i])))]

---------------------------------------------------------------------------
(* What the axes hold *)

\* ax.plot(x_pts, y, color=...): a line over the grid
Line(color, y) == [color |-> color, y |-> y]

\* ax2.plot(alpha, value, '.', color='red'): one marker
Marker(a, s) == [kind |-> "marker", x |-> a, y |-> s]

\* ax2.axhline(value, ...): a horizontal line
HLine(s) == [kind |-> "axhline", x |-> 0, y |-> s]

y_star_pts == [i \in 1..GridN |-> y_star(x_pts[i])]

\* ax1.plot(x_pts, y_star(x_pts), color='black', lw=2)
RefCurve == Line("black", y_star_pts)

\* ax2.axhline(evaluate_functional(x_pts, y_star(x_pts)), ...)
Baseline == HLine(evaluate_functional(x_pts, y_star_pts))

Op(op, a, b, e) == [op |-> op, alpha |-> a, base |-> b, eta |-> e]

\* def setup_figure(), run on axes that hold a1 and a2
setup_figure(a1, a2) ==
    /\ ax1' = Append(a1, RefCurve)
    /\ ax2' = Append(a2, Baseline)

make_path_no_marker(a, b, e) ==
    IF base_resolves(b) /\ eta_resolves(e)
    THEN /\ ax1' = Append(ax1, Line("red", y_new_pts(a, b, e)))
         /\ ax2' = ax2
         /\ evals' = evals + 1
         /\ last' = Op("make_path", a, b, e)
    ELSE /\ UNCHANGED <<ax1, ax2, evals>>
         /\ last' = Op("raise", a, b, e)

make_path_default_tags(a, b, e) ==
    LET b2 == IF base_resolves(b) THEN b ELSE "exact"
        e2 == IF eta_resolves(e) THEN e ELSE "sine"
    IN  /\ ax1' = Append(ax1, Line("red", y_new_pts(a, b2, e2)))
        /\ ax2' = Append(ax2, Marker(a, evaluate_functional(x_pts, y_new_pts(a, b2, e2))))
        /\ evals' = evals + 1
        /\ last' = Op(IF b2 = b /\ e2 = e THEN "make_path" ELSE "raise", a, b, e)

\* def make_path(alpha, ax1_passed, ax2_passed, base_function, eta_function)
\* with ax1_passed = ax1 and ax2_passed = ax2.  A tag that does not resolve
\* leaves base or eta unbound, and line 156 raises before anything is drawn.
make_path(a, b, e) ==
    IF base_resolves(b) /\ eta_resolves(e)
    THEN /\ ax1' = Append(ax1, Line("red", y_new_pts(a, b, e)))
         /\ ax2' = Append(ax2, Marker(a, evaluate_functional(x_pts, y_new_pts(a, b, e))))
         /\ evals' = evals + 1
         /\ last' = Op("make_path", a, b, e)
    ELSE /\ UNCHANGED <<ax1, ax2, evals>>
         /\ last' = Op("raise", a, b, e)

reset_graph_ax1_only ==
    /\ ax1' = <<RefCurve>>
    /\ ax2' = Append(ax2, Baseline)
    /\ evals' = 0
    /\ last' = Op("reset", alpha, base_function, eta_function)

\* def reset_graph(event): ax1.clear(); ax2.clear(); setup_figure()
reset_graph ==
    /\ setup_figure(<<>>, <<>>)
    /\ evals' = 0
    /\ last' = Op("reset", alpha, base_function, eta_function)

---------------------------------------------------------------------------
(* The widgets *)

continuous_update_on == TRUE

\* FloatSlider(..., continuous_update=False)
continuous_update == FALSE

\* pointer positions along the slider track, in half steps
PointerPositions ==
    UNION {(c - PointerReach)..(c + PointerReach) :
              c \in {2 * SliderMin, 2 * SliderInit, 2 * SliderMax}}

\* the slider value a pointer position selects: the nearest step, kept
\* within min and max
SliderValue(r) ==
    LET k == (r + 1) \div 2
    IN  IF k < SliderMin THEN SliderMin ELSE IF k > SliderMax THEN SliderMax ELSE k

SliderValues == SliderMin..SliderMax

---------------------------------------------------------------------------
(* The session: the cell runs, then the user acts *)

NoProbe == [x |-> <<>>, y |-> <<>>, out |-> Zero]

\* lines 98-104: the grid and the figure with its two empty axes exist
Init ==
    /\ pc = "created"
    /\ alpha = SliderInit
    /\ handle = SliderInit
    /\ base_function = "exact"
    /\ eta_function = "sine"
    /\ ax1 = <<>>
    /\ ax2 = <<>>
    /\ evals = 0
    /\ last = Op("none", SliderInit, "exact", "sine")
    /\ probe = NoProbe

\* widgets.interact(make_path, ...): builds the widgets, displays them and
\* calls make_path once with their initial values
InteractDisplay ==
    /\ pc = "created"
    /\ pc' = "displayed"
    /\ make_path(alpha, base_function, eta_function)
    /\ UNCHANGED <<alpha, handle, base_function, eta_function, probe>>

\* the cell's own call of setup_figure(), after interact
StartupSetup ==
    /\ pc = "displayed"
    /\ pc' = "idle"
    /\ setup_figure(ax1, ax2)
    /\ last' = Op("setup_figure", alpha, base_function, eta_function)
    /\ UNCHANGED <<alpha, handle, base_function, eta_function, evals, probe>>

\* the user moves the slider handle without releasing it
DragTick(r) ==
    /\ pc = "idle"
    /\ handle' = SliderValue(r)
    /\ handle' # handle
    /\ IF continuous_update /\ handle' # alpha
       THEN /\ evals < MaxEvals
            /\ alpha' = handle'
            /\ make_path(handle', base_function, eta_function)
       ELSE /\ last' = Op("drag", alpha, base_function, eta_function)
            /\ UNCHANGED <<alpha, ax1, ax2, evals>>
    /\ UNCHANGED <<pc, base_function, eta_function, probe>>

\* the user releases the handle: the slider's value changes, and interact
\* calls make_path with the widgets' values
Release ==
    /\ pc = "idle"
    /\ handle # alpha
    /\ evals < MaxEvals
    /\ alpha' = handle
    /\ make_path(handle, base_function, eta_function)
    /\ UNCHANGED <<pc, handle, base_function, eta_function, probe>>

\* the user picks another base function
SelectBase(b) ==
    /\ pc = "idle"
    /\ handle = alpha
    /\ b # base_function
    /\ evals < MaxEvals
    /\ base_function' = b
    /\ make_path(alpha, b, eta_function)
    /\ UNCHANGED <<pc, alpha, handle, eta_function, probe>>

\* the user picks another eta
SelectEta(e) ==
    /\ pc = "idle"
    /\ handle = alpha
    /\ e # eta_function
    /\ evals < MaxEvals
    /\ eta_function' = e
    /\ make_path(alpha, base_function, e)
    /\ UNCHANGED <<pc, alpha, handle, base_function, probe>>

\* button.on_click(reset_graph)
ClickReset ==
    /\ pc = "idle"
    /\ handle = alpha
    /\ reset_graph
    /\ UNCHANGED <<pc, alpha, handle, base_function, eta_function, probe>>

Next ==
    \/ InteractDisplay
    \/ StartupSetup
    \/ \E r \in PointerPositions : DragTick(r)
    \/ Release
    \/ \E b \in BaseOptions : SelectBase(b)
    \/ \E e \in EtaOptions : SelectEta(e)
    \/ ClickReset

Spec == Init /\ [][Next]_vars

---------------------------------------------------------------------------
(* Direct calls of make_path, on the figure as reset_graph leaves it *)

\* tags a caller may pass: the options, and one that is none of them
BaseTags == BaseOptions \cup {"guess 3"}
EtaTags == EtaOptions \cup {"cubic"}

CallInit ==
    /\ pc = "idle"
    /\ alpha = SliderInit
    /\ handle = SliderInit
    /\ base_function = "exact"
    /\ eta_function = "sine"
    /\ ax1 = <<RefCurve>>
    /\ ax2 = <<Baseline>>
    /\ evals = 0
    /\ last = Op("reset", SliderInit, "exact", "sine")
    /\ probe = NoProbe

\* make_path(a, ax1, ax2, b, e), called right after a reset
DirectCall(a, b, e) ==
    /\ last.op = "reset"
    /\ make_path(a, b, e)
    /\ UNCHANGED <<pc, alpha, handle, base_function, eta_function, probe>>

\* reset_graph(None)
DirectReset ==
    /\ reset_graph
    /\ UNCHANGED <<pc, alpha, handle, base_function, eta_function, probe>>

CallNext ==
    \/ \E a \in SliderValues, b \in BaseTags, e \in EtaTags : DirectCall(a, b, e)
    \/ DirectReset

CallSpec == CallInit /\ [][CallNext]_vars

---------------------------------------------------------------------------
(* Direct calls of evaluate_functional on small grids and paths *)

RECURSIVE Increasing(_, _)
\* the strictly increasing sequences of n coordinates, all at least lo
Increasing(n, lo) ==
    IF n = 0 THEN {<<>>}
    ELSE UNION {{<<c>> \o t : t \in Increasing(n - 1, c + 1)} : c \in lo..MaxCoord}

\* grids of 1..MaxPts points at multiples of delta_x
Grids ==
    UNION {{[i \in 1..n |-> RMul(RInt(g[i]), delta_x)] : g \in Increasing(n, 0)} :
              n \in 1..MaxPts}

\* path values: halves between -MaxVal/2 and MaxVal/2
PathValues == {Rat(v, 2) : v \in (-MaxVal)..MaxVal}

FunctionalInit ==
    /\ pc = "input"
    /\ alpha = SliderInit
    /\ handle = SliderInit
    /\ base_function = "exact"
    /\ eta_function = "sine"
    /\ ax1 = <<>>
    /\ ax2 = <<>>
    /\ evals = 0
    /\ last = Op("none", SliderInit, "exact", "sine")
    /\ \E x \in Grids : \E y \in [1..Len(x) -> PathValues] :
           probe = [x |-> x, y |-> y, out |-> Zero]

\* evaluate_functional(x, y) returns
EvaluateReturns ==
    /\ pc = "input"
    /\ Len(probe.x) >= 2
    /\ pc' = "returned"
    /\ probe' = [probe EXCEPT !.out = evaluate_functional(probe.x, probe.y)]
    /\ UNCHANGED <<alpha, handle, base_function, eta_function, ax1, ax2, evals, last>>

\* np.gradient raises ValueError on fewer than two points
EvaluateRaises ==
    /\ pc = "input"
    /\ Len(probe.x) < 2
    /\ pc' = "raised"
    /\ UNCHANGED <<alpha, handle, base_function, eta_function, ax1, ax2, evals, last,
                   probe>>

FunctionalNext == EvaluateReturns \/ EvaluateRaises

FunctionalSpec == FunctionalInit /\ [][FunctionalNext]_vars

---------------------------------------------------------------------------
(* Properties *)

Last(q) == q[Len(q)]
Front(q) == SubSeq(q, 1, Len(q) - 1)

RedLines(a1) == Cardinality({i \in DOMAIN a1 : a1[i].color = "red"})
Markers(a2) == Cardinality({i \in DOMAIN a2 : a2[i].kind = "marker"})

\* ax1 holds the reference curve and nothing else
OnlyReference(a1) ==
    /\ Len(a1) = 1
    /\ a1[1].color = "black"
    /\ \A i \in 1..GridN : a1[1].y[i] = y_star(x_pts[i])

\* ax2 holds the baseline and nothing else
OnlyBaseline(a2) ==
    /\ Len(a2) = 1
    /\ a2[1].kind = "axhline"
    /\ a2[1].y = evaluate_functional(x_pts, [i \in 1..GridN |-> y_star(x_pts[i])])

\* the path of the claim: base on the grid, eta on the grid mapped to [0, 1]
PathAt(a, b, e) ==
    [i \in 1..GridN |->
        RAdd(base(b, x_pts[i]),
             RMul(Rat(a, StepsPerUnit),
                  eta(e, RDiv(RSub(x_pts[i], x_pts[1]), RSub(x_pts[GridN], x_pts[1])))))]

\* C1: when the last operation was a reset, ax1 holds exactly the reference
\* curve and ax2 exactly the baseline, whatever was drawn before.
C1_ResetRestores ==
    last.op = "reset" => OnlyReference(ax1) /\ OnlyBaseline(ax2)

\* a reset that follows at least two evaluations by the user
C1_Witness ==
    /\ last.op = "reset"
    /\ alpha = SliderMax
    /\ base_function = "guess 2"

\* C2: once the cell has run and before any user input, both axes hold the
\* reference curve and the baseline only, as after a reset.
C2_InitialDisplayIsResetDisplay ==
    (pc = "idle" /\ last.op = "setup_figure") => OnlyReference(ax1) /\ OnlyBaseline(ax2)

\* a step in which a widget's value changes: a committed slider value or a
\* selector change
EvalStep ==
    \/ alpha' # alpha
    \/ base_function' # base_function
    \/ eta_function' # eta_function

\* C3: every evaluation appends exactly one red path to ax1 and exactly one
\* marker to ax2, at (alpha, functional of the path for the widgets' values),
\* and keeps what was there; the red paths, the markers and the evaluations
\* since the last clear are equally many.
C3_EvaluationsAdd ==
    /\ [][EvalStep =>
            /\ Front(ax1') = ax1
            /\ Last(ax1') = [color |-> "red", y |-> PathAt(alpha', base_function', eta_function')]
            /\ Front(ax2') = ax2
            /\ Last(ax2') = [kind |-> "marker", x |-> alpha',
                             y |-> evaluate_functional(x_pts, Last(ax1').y)]
            /\ evals' = evals + 1]_vars
    /\ [](RedLines(ax1) = evals /\ Markers(ax2) = evals)

\* two evaluations by the user since a reset
C3_Witness ==
    /\ pc = "idle"
    /\ evals = 2
    /\ Len(ax1) = 3
    /\ ax1[1].color = "black"
    /\ alpha # SliderInit
    /\ eta_function = "parabola"

\* C4: a drag tick moves the handle and nothing else: no evaluation, both
\* axes unchanged.  The slider's value changes only to the position the
\* handle is released at, which lies between min and max on the step grid,
\* and that change is evaluated once.
C4_Debounced ==
    [][/\ handle' # handle => UNCHANGED <<alpha, ax1, ax2, evals>>
       /\ alpha' # alpha =>
            /\ alpha' = handle
            /\ handle' = handle
            /\ alpha' \in SliderMin..SliderMax
            /\ evals' = evals + 1
            /\ Markers(ax2') = Markers(ax2) + 1
            /\ Last(ax2').x = alpha']_vars

\* a drag tick after an earlier release at the right end of the track
C4_Witness ==
    /\ last.op = "drag"
    /\ handle # alpha
    /\ alpha = SliderMax
    /\ evals = 1

\* a step that is a call of make_path
CallStep == last' # last /\ last'.op \in {"make_path", "raise"}

\* C5 as stated: a call of make_path leaves both axes unchanged.
C5_MakePathPure == [][CallStep => UNCHANGED <<ax1, ax2>>]_vars

\* C5 as amended: a call of make_path whose tags resolve draws: it appends to
\* ax1 the path base(grid) + alpha * eta(normalized grid) and to ax2 a marker at
\* (alpha, functional of that path); it changes no widget and nothing that
\* was drawn before.
C5_MakePathDraws ==
    [][(CallStep /\ last'.op = "make_path") =>
          /\ ax1' = Append(ax1, [color |-> "red",
                                 y |-> PathAt(last'.alpha, last'.base, last'.eta)])
          /\ ax2' = Append(ax2, [kind |-> "marker", x |-> last'.alpha,
                                 y |-> evaluate_functional(x_pts,
                                          PathAt(last'.alpha, last'.base, last'.eta))])
          /\ UNCHANGED <<alpha, handle, base_function, eta_function>>]_vars

\* a direct call that drew a path away from the base
C5_Witness ==
    /\ last.op = "make_path"
    /\ last.alpha = SliderMin
    /\ last.base = "guess 1"
    /\ Len(ax1) = 2
    /\ Len(ax2) = 2
    /\ ax1[2].y[2] # base("guess 1", x_pts[2])

\* eta vanishes at both ends of the normalized domain
Vanishes(e) == eta(e, Zero) = Zero /\ eta(e, One) = Zero

\* C6: for an eta that vanishes at 0 and 1, the path make_path draws equals
\* base(grid) at the first and at the last grid point, for every alpha and
\* base; between them it is base on the grid plus alpha times eta on the grid
\* mapped by (x - x_min) / (x_max - x_min).
C6_EndpointsFixed ==
    (last.op = "make_path" /\ Vanishes(last.eta)) =>
        LET y == Last(ax1).y
        IN  /\ y[1] = base(last.base, x_pts[1])
            /\ y[GridN] = base(last.base, x_pts[GridN])
            /\ \A i \in 1..GridN :
                  RSub(y[i], base(last.base, x_pts[i])) =
                      RMul(Rat(last.alpha, StepsPerUnit),
                           eta(last.eta, RDiv(RSub(x_pts[i], x_pts[1]),
                                              RSub(x_pts[GridN], x_pts[1]))))

\* a path with alpha at its maximum that leaves the base inside the interval
\* and meets it at the last grid point, which is not 1
C6_Witness ==
    /\ last.op = "make_path"
    /\ last.alpha = SliderMax
    /\ last.base = "guess 2"
    /\ last.eta = "parabola"
    /\ Last(ax1).y[2] # base("guess 2", x_pts[2])
    /\ Last(ax1).y[GridN] = base("guess 2", x_pts[GridN])
    /\ x_pts[GridN] # One

\* C7: an evaluation with base 'exact' and alpha = 0, with either eta, puts
\* its marker at the functional of the reference path, which is the height of
\* every baseline on ax2.
C7_ZeroAlphaOnBaseline ==
    (last.op = "make_path" /\ last.base = "exact" /\ last.alpha = 0) =>
        /\ Last(ax2).kind = "marker"
        /\ Last(ax2).y = evaluate_functional(x_pts, [i \in 1..GridN |-> y_star(x_pts[i])])
        /\ \A j \in DOMAIN ax2 : ax2[j].kind = "axhline" => ax2[j].y = Last(ax2).y

\* the user comes back to 'exact' at alpha = 0 with the parabola selected
C7_Witness ==
    /\ pc = "idle"
    /\ last = Op("make_path", 0, "exact", "parabola")
    /\ ax2[1].kind = "axhline"
    /\ Last(ax2).kind = "marker"

\* the path handed to evaluate_functional is constant
ConstantPath(y) == \A i \in DOMAIN y : y[i] = y[1]

\* C8: on a constant path c over a grid of at least two points,
\* evaluate_functional returns c^2 * (x2 - x1), x1 and x2 the first and the
\* last grid point.
C8_ConstantPath ==
    (pc = "returned" /\ ConstantPath(probe.y)) =>
        probe.out = RMul(RMul(probe.y[1], probe.y[1]),
                         RSub(probe.x[Len(probe.x)], probe.x[1]))

\* a constant path c = -1/2 over three unevenly spaced points
C8_Witness ==
    /\ pc = "returned"
    /\ ConstantPath(probe.y)
    /\ probe.y[1] = Rat(-1, 2)
    /\ Len(probe.x) = 3
    /\ RSub(probe.x[2], probe.x[1]) # RSub(probe.x[3], probe.x[2])
    /\ probe.out # Zero

\* C9: with base 'exact' and eta 'sine', no slider value of alpha gives a
\* functional below the one at alpha = 0.
C9_MinimumAtZero ==
    (last.op = "make_path" /\ last.base = "exact" /\ last.eta = "sine") =>
        RLe(evaluate_functional(x_pts, PathAt(0, "exact", "sine")), Last(ax2).y)

\* the slider value next to 0 gives a functional strictly above the minimum
C9_Witness ==
    /\ last = Op("make_path", -1, "exact", "sine")
    /\ RLt(evaluate_functional(x_pts, PathAt(0, "exact", "sine")), Last(ax2).y)

\* C10: a call of make_path with a base tag or an eta tag that is not one of
\* the options raises, and draws nothing: the axes hold what the reset before
\* the call left.  Calls whose tags are options do not raise.
C10_UnknownTagRaises ==
    /\ last.op \in {"make_path", "raise"} =>
          (last.op = "raise" <=>
              (last.base \notin BaseOptions \/ last.eta \notin EtaOptions))
    /\ last.op = "raise" => OnlyReference(ax1) /\ OnlyBaseline(ax2) /\ evals = 0

\* a call with a known base and an unknown eta has raised
C10_Witness ==
    /\ last.op = "raise"
    /\ last.base = "guess 2"
    /\ last.eta \notin EtaOptions
    /\ last.alpha = SliderMax

===========================================================================
